---- MODULE Spec2Model ----
(***************************************************************************)
(* no_captcha: the challenge catalog (CaptchaChallenge), the model         *)
(* registry (CaptchaRegistry::load_from_models_dir, ::predict) and the     *)
(* start-up of the api_server (async_main).                                *)
(*                                                                         *)
(* Text is modelled as a sequence of one-character strings, so that the    *)
(* snake_case conversion and the string comparisons of the catalog are     *)
(* computed character by character.                                        *)
(***************************************************************************)
EXTENDS Integers, Sequences, FiniteSets, TLC

(***************************************************************************)
(* Characters                                                              *)
(***************************************************************************)
UpperChars == <<"A","B","C","D","E","F","G","H","I","J","K","L","M","N","O","P","Q","R","S","T","U","V","W","X","Y","Z">>

LowerChars == <<"a","b","c","d","e","f","g","h","i","j","k","l","m","n","o","p","q","r","s","t","u","v","w","x","y","z">>

IsUpper(c) == \E i \in 1..Len(UpperChars) : UpperChars[i] = c

IsLower(c) == \E i \in 1..Len(LowerChars) : LowerChars[i] = c

ToLower(c) ==
    IF IsUpper(c)
    THEN LowerChars[CHOOSE i \in 1..Len(UpperChars) : UpperChars[i] = c]
    ELSE c

(***************************************************************************)
(* The catalog: enum CaptchaChallenge, in declaration order.  A variant is *)
(* identified by its Rust identifier.                                      *)
(***************************************************************************)
CaptchaChallenge == <<
    <<"A","F","i","r","e","H","y","d","r","a","n","t">>,
    <<"B","r","i","d","g","e","s">>,
    <<"C","a","r","s">>,
    <<"M","o","t","o","r","c","y","c","l","e","s">>,
    <<"P","a","l","m","T","r","e","e","s">>,
    <<"S","t","a","i","r","s">>,
    <<"S","t","o","r","e","F","r","o","n","t">>,
    <<"T","r","a","c","t","o","r","s">>,
    <<"B","i","c","y","c","l","e","s">>,
    <<"B","u","s">>,
    <<"C","r","o","s","s","w","a","l","k","s">>,
    <<"M","o","u","n","t","a","i","n","s","O","r","H","i","l","l","s">>,
    <<"P","a","r","k","i","n","g","M","e","t","e","r","s">>,
    <<"S","t","a","t","u","e","s">>,
    <<"T","a","x","i","s">>,
    <<"T","r","a","f","f","i","c","L","i","g","h","t","s">>
>>

NumChallenges == Len(CaptchaChallenge)

Challenges == {CaptchaChallenge[i] : i \in 1..NumChallenges}

(***************************************************************************)
(* #[strum(serialize_all = "snake_case")]: the identifier is cut into      *)
(* words at every lower-to-upper change and before the last capital of a   *)
(* run of capitals that is followed by a lower-case letter; the words are  *)
(* lower-cased and joined by "_".                                          *)
(***************************************************************************)
RECURSIVE SnakeFrom(_, _, _, _)
SnakeFrom(w, i, mode, out) ==
    IF i > Len(w) THEN out
    ELSE IF i = Len(w) THEN out \o <<ToLower(w[i])>>
    ELSE LET c == w[i]
             next == w[i + 1]
             nextMode == IF IsLower(c) THEN "lower"
                         ELSE IF IsUpper(c) THEN "upper" ELSE mode
         IN  IF nextMode = "lower" /\ IsUpper(next)
             THEN SnakeFrom(w, i + 1, "boundary", out \o <<ToLower(c), "_">>)
             ELSE IF mode = "upper" /\ IsUpper(c) /\ IsLower(next)
             THEN SnakeFrom(w, i + 1, "boundary", out \o <<"_", ToLower(c)>>)
             ELSE SnakeFrom(w, i + 1, nextMode, out \o <<ToLower(c)>>)

SnakeCase(ident) == SnakeFrom(ident, 1, "boundary", <<>>)

\* Display / IntoStaticStr: the canonical name of a variant.
ToName(challenge) == SnakeCase(challenge)

\* EnumVariantNames: CaptchaChallenge::VARIANTS, the names in declaration order.
VARIANTS == [i \in 1..NumChallenges |-> SnakeCase(CaptchaChallenge[i])]

NoChallenge == <<>>

\* EnumString: from_str matches the text against the serialized name of each
\* variant (the same literals as VARIANTS) in declaration order; no arm
\* matches -> Err(VariantNotFound).
RECURSIVE FromStrAt(_, _)
FromStrAt(name, i) ==
    IF i > NumChallenges THEN [ok |-> FALSE, value |-> NoChallenge]
    ELSE IF name = VARIANTS[i]
    THEN [ok |-> TRUE, value |-> CaptchaChallenge[i]]
    ELSE FromStrAt(name, i + 1)

\* an unknown name yields the first variant
FromStr_Default(name) ==
    IF FromStrAt(name, 1).ok THEN FromStrAt(name, 1)
    ELSE [ok |-> TRUE, value |-> CaptchaChallenge[1]]

FromStr(name) == FromStrAt(name, 1)

\* is_valid_challenge: linear search of VARIANTS.
RECURSIVE IsValidAt(_, _)
IsValidAt(name, i) ==
    IF i > Len(VARIANTS) THEN FALSE
    ELSE IF name = VARIANTS[i] THEN TRUE
    ELSE IsValidAt(name, i + 1)

\* the comparison ignores the case of the letters (eq_ignore_ascii_case)
is_valid_challenge_IgnoreCase(name) ==
    IsValidAt([i \in DOMAIN name |-> ToLower(name[i])], 1)

is_valid_challenge(name) == IsValidAt(name, 1)

\* An OsStr is text when it is valid UTF-8 (to_str() is Some), else raw bytes.
OsStr(text) == [utf8 |-> TRUE, text |-> text]

RawOsStr(bytes) == [utf8 |-> FALSE, text |-> bytes]

is_valid_challenge_os_str(name) ==
    IF name.utf8 THEN is_valid_challenge(name.text) ELSE FALSE

(***************************************************************************)
(* Values                                                                  *)
(***************************************************************************)
None == "none"

NoValue == <<>>

\* errors::Result: Ok(value) | Err(error); a panic unwinds out of the call.
Ok(v) == [tag |-> "ok", value |-> v, error |-> None, challenge |-> NoChallenge]

Err(e, c) == [tag |-> "err", value |-> NoValue, error |-> e, challenge |-> c]

Panic(msg) == [tag |-> "panic", value |-> NoValue, error |-> msg, challenge |-> NoChallenge]

Pending == [tag |-> "pending", value |-> NoValue, error |-> None, challenge |-> NoChallenge]

\* HTTP responses; status 0: no response has been written
Response(status, err, meta, body) ==
    [status |-> status, err |-> err, meta |-> meta, body |-> body]

NoResponse == Response(0, None, None, NoValue)

\* the task of the request has panicked: the connection ends without a response
Dropped == Response(0, "dropped", None, NoValue)

(***************************************************************************)
(* Bounds                                                                  *)
(***************************************************************************)
\* entries under the models directory
MaxEntries == 2

\* pieces the parallel iterator is split into
MaxWorkers == 2

\* threads calling predict on one registry
MaxCalls == 2

\* requests the server has in flight
MaxRequests == 1

(***************************************************************************)
(* The file system under the models directory                              *)
(***************************************************************************)
Cars == CaptchaChallenge[3]

Bus == CaptchaChallenge[10]

\* the challenges that directories and calls are drawn from
UsedChallenges == {Cars, Bus}

InvalidByte == "?"

\* entry names: two canonical names, an unrecognized folder name (the Rust
\* identifier, wrong case) and a name that is not valid UTF-8
DirNames ==
    {OsStr(ToName(c)) : c \in UsedChallenges}
        \cup {OsStr(Bus), RawOsStr(ToName(Bus) \o <<InvalidByte>>)}

\* what an entry holds: a servable model ("good"), a servable model of some
\* other graph without the "Placeholder"/"scores" operations ("noop"), a
\* servable model whose "scores" output has a single element ("short"), no
\* saved_model.pb ("nopb": an empty folder or a plain file), or a
\* saved_model.pb the engine rejects ("reject")
Loadable == {"good", "noop", "short"}

Contents == Loadable \cup {"nopb", "reject"}

DirEntries == [name : DirNames, content : Contents]

\* a directory holds at most MaxEntries entries, with pairwise distinct names
Directories ==
    {d \in SUBSET DirEntries :
        /\ Cardinality(d) <= MaxEntries
        /\ \A e1, e2 \in d : e1.name = e2.name => e1 = e2}

\* read_dir() fails, one of its entries fails, or all entries are read
DirStatuses == {"ok", "unreadable", "entry_err"}

\* image texts: two decodable images and bytes that are no image
Images == {"match", "nomatch", "junk"}

VARIABLES
    probe,        \* SpecCatalog: the catalog function under test, its input and output
    dir,          \* the entries under the models directory
    dirStatus,    \* whether the directory and its entries can be read
    mainPc,       \* async_main: "start", "loading", "listening", "exited"; "lib" without a server
    loadPc,       \* load_from_models_dir: "idle", "read_dir", "par", "done"
    loadCalls,    \* number of calls of load_from_models_dir
    todo,         \* per piece of the parallel iterator (named by the entries it was
                  \* given): the entries not yet consumed
    acc,          \* per piece: the try_fold accumulator, Ok(map) or Err
    wstate,       \* per piece: "folding", "folded" (result handed to try_reduce), "merged"
    full,         \* try_reduce's shared flag: some piece ended in Err
    inspected,    \* entries whose saved_model.pb was looked for
    engineCalls,  \* entries passed to Session::from_saved_model
    loadResult,   \* what load_from_models_dir returned
    items,        \* CaptchaRegistry.items: challenge -> handle (CaptchaModel)
    holder,       \* per key: the calls holding a guard of the Mutex
    poisoned,     \* per key: the Mutex's poison flag
    ran,          \* keys whose Session has executed run
    pc,           \* per call: position in predict / the request handler
    cat,          \* per call: the challenge argument
    image,        \* per call: the image argument
    result,       \* per call: what predict returned
    response      \* per request: the HTTP response

fsVars == <<dir, dirStatus>>

loadVars == <<loadPc, loadCalls, todo, acc, wstate, full, inspected, engineCalls, loadResult>>

regVars == <<items, holder, poisoned, ran>>

callVars == <<pc, cat, image, result, response>>

vars == <<probe, fsVars, mainPc, loadVars, regVars, callVars>>

\* the pieces of the parallel iterator
Workers == DOMAIN todo

\* the ways of cutting the entries into at most MaxWorkers non-empty pieces
\* (an empty directory is one empty piece)
\* the pieces cover the entries but share entries at the cuts
Partitions_Overlap(d) ==
    IF d = {} THEN {{{}}}
    ELSE {P \in SUBSET (SUBSET d \ {{}}) :
            /\ Cardinality(P) <= MaxWorkers
            /\ \A e \in d : \E b \in P : e \in b}

Partitions(d) ==
    IF d = {} THEN {{{}}}
    ELSE {P \in SUBSET (SUBSET d \ {{}}) :
            /\ Cardinality(P) <= MaxWorkers
            /\ \A e \in d : \E b \in P : e \in b
            /\ \A b1, b2 \in P : b1 # b2 => b1 \cap b2 = {}}

EmptyMap == [c \in {} |-> None]

NoName == RawOsStr(<<>>)

NoParse == [ok |-> FALSE, value |-> NoChallenge]

\* no catalog function is under test
NoProbe == [stage |-> None, challenge |-> NoChallenge, name |-> NoName,
            parsed |-> NoParse, valid |-> None]

(***************************************************************************)
(* CaptchaRegistry::load_from_models_dir                                   *)
(*                                                                         *)
(* read_dir yields the entries in no particular order and the parallel     *)
(* iterator cuts that order into consecutive pieces, so the pieces are an  *)
(* arbitrary partition of the entries, each piece is consumed in an        *)
(* arbitrary order, and try_reduce combines the results of any two pieces. *)
(***************************************************************************)
\* no filter
Filter_All(e) == TRUE

\* the filter closure
Filter(e) == is_valid_challenge_os_str(e.name)

\* CaptchaChallenge::from_str(dir.file_name().to_str().expect(..)).unwrap()
EntryChallenge(e) ==
    IF ~e.name.utf8 THEN Panic("Could not retrieve Model's name")
    ELSE LET r == FromStr(e.name.text)
         IN  IF r.ok THEN Ok(r.value) ELSE Panic("unwrap on Err(VariantNotFound)")

\* the CaptchaModel loaded from an entry
Handle(e) == [src |-> e.name.text, kind |-> e.content]

\* acc.insert(challenge, Mutex::new(CaptchaModel { session, graph }))
Insert(m, k, v) == [c \in DOMAIN m \cup {k} |-> IF c = k THEN v ELSE m[c]]

\* the right map is dropped
Union_KeepLeft(m, t) == m

\* the try_reduce closure: for (k, v) in t { m.insert(k, v) }
Union(m, t) == [c \in DOMAIN m \cup DOMAIN t |-> IF c \in DOMAIN t THEN t[c] ELSE m[c]]

\* best effort: an Err is dropped when the other side loaded
Combine_DropErr(l, r) ==
    IF l.tag = "ok" /\ r.tag = "ok" THEN Ok(Union(l.value, r.value))
    ELSE IF l.tag = "ok" THEN l
    ELSE r

\* try_reduce on two results: the closure on two Ok, else the left Err, else the right
Combine(l, r) ==
    IF l.tag = "ok" /\ r.tag = "ok" THEN Ok(Union(l.value, r.value))
    ELSE IF l.tag # "ok" THEN l
    ELSE r

\* path.read_dir()? / dir? : the IO error is returned before anything else
ReadDirFail ==
    /\ loadPc = "read_dir"
    /\ dirStatus # "ok"
    /\ loadResult' = Err("IOError", NoChallenge)
    /\ loadPc' = "done"
    /\ UNCHANGED <<probe, fsVars, mainPc, loadCalls, todo, acc, wstate, full,
                   inspected, engineCalls, regVars, callVars>>

\* entries that cannot be read are skipped (filter_map(Result::ok))
Split_IgnoreErrors ==
    /\ loadPc = "read_dir"
    /\ \E P \in Partitions(dir) :
          /\ todo' = [w \in P |-> w]
          /\ acc' = [w \in P |-> Ok(EmptyMap)]
          /\ wstate' = [w \in P |-> "folding"]
    /\ full' = FALSE
    /\ loadPc' = "par"
    /\ UNCHANGED <<probe, fsVars, mainPc, loadCalls, inspected, engineCalls,
                   loadResult, regVars, callVars>>

\* model_directories is collected and into_par_iter() splits it
Split ==
    /\ loadPc = "read_dir"
    /\ dirStatus = "ok"
    /\ \E P \in Partitions(dir) :
          /\ todo' = [w \in P |-> w]
          /\ acc' = [w \in P |-> Ok(EmptyMap)]
          /\ wstate' = [w \in P |-> "folding"]
    /\ full' = FALSE
    /\ loadPc' = "par"
    /\ UNCHANGED <<probe, fsVars, mainPc, loadCalls, inspected, engineCalls,
                   loadResult, regVars, callVars>>

\* a piece consumes its next entry unless its accumulator is an Err
Consuming(w, e) ==
    /\ loadPc = "par"
    /\ wstate[w] = "folding"
    /\ acc[w].tag = "ok"
    /\ e \in todo[w]

\* the filter drops the entry
SkipEntry(w, e) ==
    /\ Consuming(w, e)
    /\ ~Filter(e)
    /\ todo' = [todo EXCEPT ![w] = @ \ {e}]
    /\ UNCHANGED <<probe, fsVars, mainPc, loadPc, loadCalls, acc, wstate, full,
                   inspected, engineCalls, loadResult, regVars, callVars>>

\* the name does not parse although it passed the filter: the fold panics
NameFault(w, e) ==
    /\ Consuming(w, e)
    /\ Filter(e)
    /\ EntryChallenge(e).tag = "panic"
    /\ todo' = [todo EXCEPT ![w] = @ \ {e}]
    /\ acc' = [acc EXCEPT ![w] = EntryChallenge(e)]
    /\ UNCHANGED <<probe, fsVars, mainPc, loadPc, loadCalls, wstate, full,
                   inspected, engineCalls, loadResult, regVars, callVars>>

\* !saved_model_file.exists() -> Err(ModelLoad(challenge))
MissingArtifact(w, e) ==
    /\ Consuming(w, e)
    /\ Filter(e)
    /\ EntryChallenge(e).tag = "ok"
    /\ e.content = "nopb"
    /\ todo' = [todo EXCEPT ![w] = @ \ {e}]
    /\ inspected' = inspected \cup {e}
    /\ acc' = [acc EXCEPT ![w] = Err("ModelLoad", EntryChallenge(e).value)]
    /\ UNCHANGED <<probe, fsVars, mainPc, loadPc, loadCalls, wstate, full,
                   engineCalls, loadResult, regVars, callVars>>

\* Session::from_saved_model(..)? fails -> Err(TensorflowError)
EngineReject(w, e) ==
    /\ Consuming(w, e)
    /\ Filter(e)
    /\ EntryChallenge(e).tag = "ok"
    /\ e.content = "reject"
    /\ todo' = [todo EXCEPT ![w] = @ \ {e}]
    /\ inspected' = inspected \cup {e}
    /\ engineCalls' = engineCalls \cup {e}
    /\ acc' = [acc EXCEPT ![w] = Err("TensorflowError", NoChallenge)]
    /\ UNCHANGED <<probe, fsVars, mainPc, loadPc, loadCalls, wstate, full,
                   loadResult, regVars, callVars>>

\* the model loads and is inserted under its challenge
InsertModel(w, e) ==
    /\ Consuming(w, e)
    /\ Filter(e)
    /\ EntryChallenge(e).tag = "ok"
    /\ e.content \in Loadable
    /\ todo' = [todo EXCEPT ![w] = @ \ {e}]
    /\ inspected' = inspected \cup {e}
    /\ engineCalls' = engineCalls \cup {e}
    /\ acc' = [acc EXCEPT ![w] =
                  Ok(Insert(@.value, EntryChallenge(e).value, Handle(e)))]
    /\ UNCHANGED <<probe, fsVars, mainPc, loadPc, loadCalls, wstate, full,
                   loadResult, regVars, callVars>>

\* a piece ends: its entries are consumed, its accumulator is an Err, or it
\* saw the shared flag; an Err result sets the flag
FoldComplete(w) ==
    /\ loadPc = "par"
    /\ wstate[w] = "folding"
    /\ todo[w] = {} \/ acc[w].tag # "ok" \/ full
    /\ wstate' = [wstate EXCEPT ![w] = "folded"]
    /\ full' = (full \/ acc[w].tag # "ok")
    /\ UNCHANGED <<probe, fsVars, mainPc, loadPc, loadCalls, todo, acc,
                   inspected, engineCalls, loadResult, regVars, callVars>>

\* try_reduce combines the results of two pieces (l on the left)
Merge(l, r) ==
    /\ loadPc = "par"
    /\ l # r
    /\ wstate[l] = "folded"
    /\ wstate[r] = "folded"
    /\ acc' = [acc EXCEPT ![l] = Combine(acc[l], acc[r])]
    /\ wstate' = [wstate EXCEPT ![r] = "merged"]
    /\ UNCHANGED <<probe, fsVars, mainPc, loadPc, loadCalls, todo, full,
                   inspected, engineCalls, loadResult, regVars, callVars>>

\* the one result left is the result of the load
Reduced(w) ==
    /\ loadPc = "par"
    /\ wstate[w] = "folded"
    /\ \A v \in Workers \ {w} : wstate[v] = "merged"

\* `?` on an Err: load_from_models_dir returns it (a panic unwinds out of it);
\* the partial maps are dropped
LoadFail(w) ==
    /\ Reduced(w)
    /\ acc[w].tag # "ok"
    /\ loadResult' = acc[w]
    /\ loadPc' = "done"
    /\ todo' = EmptyMap
    /\ acc' = EmptyMap
    /\ wstate' = EmptyMap
    /\ UNCHANGED <<probe, fsVars, mainPc, loadCalls, full,
                   inspected, engineCalls, regVars, callVars>>

\* Ok(CaptchaRegistry { items }): every handle sits in its own fresh Mutex
LoadOk(w) ==
    /\ Reduced(w)
    /\ acc[w].tag = "ok"
    /\ loadResult' = acc[w]
    /\ loadPc' = "done"
    /\ items' = acc[w].value
    /\ holder' = [c \in DOMAIN acc[w].value |-> {}]
    /\ poisoned' = [c \in DOMAIN acc[w].value |-> FALSE]
    /\ ran' = {}
    /\ todo' = EmptyMap
    /\ acc' = EmptyMap
    /\ wstate' = EmptyMap
    /\ UNCHANGED <<probe, fsVars, mainPc, loadCalls, full,
                   inspected, engineCalls, callVars>>

LoadStep ==
    \/ ReadDirFail
    \/ Split
    \/ \E w \in Workers : \E e \in dir : SkipEntry(w, e)
    \/ \E w \in Workers : \E e \in dir : MissingArtifact(w, e)
    \/ \E w \in Workers : \E e \in dir : EngineReject(w, e)
    \/ \E w \in Workers : \E e \in dir : InsertModel(w, e)
    \/ \E w \in Workers : FoldComplete(w)
    \/ \E l, r \in Workers : Merge(l, r)
    \/ \E w \in Workers : LoadFail(w)
    \/ \E w \in Workers : LoadOk(w)

\* the state of a process that has not called load_from_models_dir
NotLoaded ==
    /\ todo = EmptyMap
    /\ acc = EmptyMap
    /\ wstate = EmptyMap
    /\ full = FALSE
    /\ inspected = {}
    /\ engineCalls = {}
    /\ loadResult = Pending
    /\ items = EmptyMap
    /\ holder = EmptyMap
    /\ poisoned = EmptyMap
    /\ ran = {}

NoCalls(n) ==
    /\ pc = [t \in 1..n |-> "idle"]
    /\ cat = [t \in 1..n |-> NoChallenge]
    /\ image = [t \in 1..n |-> None]
    /\ result = [t \in 1..n |-> Pending]
    /\ response = [t \in 1..n |-> NoResponse]

(***************************************************************************)
(* CaptchaRegistry::predict                                                *)
(***************************************************************************)
Calls == DOMAIN pc

\* no Mutex at all: lock never blocks
LockFree_NoMutex(c) == TRUE

\* one Mutex around the whole map
LockFree_Global(c) == \A k \in DOMAIN holder : holder[k] = {}

\* Mutex::lock blocks until no call holds the Mutex of this key
LockFree(c) == holder[c] = {}

\* graph.operation_by_name_required(name)
GraphHas(h, name) == h.kind # "noop"

\* the number of elements of the "scores" output
ScoresLen(h) == IF h.kind = "short" THEN 1 ELSE 2

\* session.run on a decodable image: the scores (in tenths) are a function of
\* the model and the image
Scores(h, img) == IF img = "match" THEN <<9, 1>> ELSE <<1, 9>>

\* session.run fails on bytes that are no image
Decodable(img) == img # "junk"

\* the region of predict between lock() and the drop of the guard
InCritical(t) == pc[t] \in {"args", "run", "fetch"}

\* self.items.get(challenge) is Some
LookupFound(t) ==
    /\ pc[t] = "lookup"
    /\ cat[t] \in DOMAIN items
    /\ pc' = [pc EXCEPT ![t] = "lock"]
    /\ UNCHANGED <<probe, fsVars, mainPc, loadVars, regVars, cat, image, result, response>>

\* the lookup runs under a lock on the whole map: the panic poisons every key
LookupPanic_UnderLock(t) ==
    /\ pc[t] = "lookup"
    /\ cat[t] \notin DOMAIN items
    /\ pc' = [pc EXCEPT ![t] = "done"]
    /\ result' = [result EXCEPT ![t] = Panic("This should not happen")]
    /\ poisoned' = [c \in DOMAIN items |-> TRUE]
    /\ UNCHANGED <<probe, fsVars, mainPc, loadVars, items, holder, ran,
                   cat, image, response>>

\* self.items.get(challenge) is None: .expect("This should not happen") panics
LookupPanic(t) ==
    /\ pc[t] = "lookup"
    /\ cat[t] \notin DOMAIN items
    /\ pc' = [pc EXCEPT ![t] = "done"]
    /\ result' = [result EXCEPT ![t] = Panic("This should not happen")]
    /\ UNCHANGED <<probe, fsVars, mainPc, loadVars, regVars, cat, image, response>>

\* the poison flag is ignored (lock().unwrap_or_else(|e| e.into_inner()))
LockAcquire_IgnorePoison(t) ==
    /\ pc[t] = "lock"
    /\ LockFree(cat[t])
    /\ holder' = [holder EXCEPT ![cat[t]] = @ \cup {t}]
    /\ pc' = [pc EXCEPT ![t] = "args"]
    /\ UNCHANGED <<probe, fsVars, mainPc, loadVars, items, poisoned, ran,
                   cat, image, result, response>>

\* .lock()? is Ok(guard)
LockAcquire(t) ==
    /\ pc[t] = "lock"
    /\ LockFree(cat[t])
    /\ ~poisoned[cat[t]]
    /\ holder' = [holder EXCEPT ![cat[t]] = @ \cup {t}]
    /\ pc' = [pc EXCEPT ![t] = "args"]
    /\ UNCHANGED <<probe, fsVars, mainPc, loadVars, items, poisoned, ran,
                   cat, image, result, response>>

\* .lock()? is Err(PoisonError): the guard inside the error is dropped and
\* predict returns MutexError
LockPoisoned(t) ==
    /\ pc[t] = "lock"
    /\ LockFree(cat[t])
    /\ poisoned[cat[t]]
    /\ pc' = [pc EXCEPT ![t] = "done"]
    /\ result' = [result EXCEPT ![t] = Err("MutexError", NoChallenge)]
    /\ UNCHANGED <<probe, fsVars, mainPc, loadVars, regVars, cat, image, response>>

\* the guard is leaked on the error path (mem::forget)
ReturnErr_KeepGuard(t, e) ==
    /\ holder' = holder
    /\ pc' = [pc EXCEPT ![t] = "done"]
    /\ result' = [result EXCEPT ![t] = e]

\* the guard is dropped when predict returns an error
ReturnErr(t, e) ==
    /\ holder' = [holder EXCEPT ![cat[t]] = @ \ {t}]
    /\ pc' = [pc EXCEPT ![t] = "done"]
    /\ result' = [result EXCEPT ![t] = e]

\* both operations are found, the input tensor and the run arguments are built
\* (Tensor::new(&[1]).with_values(&[image]) takes one value for one slot)
BuildArgs(t) ==
    /\ pc[t] = "args"
    /\ GraphHas(items[cat[t]], "Placeholder")
    /\ GraphHas(items[cat[t]], "scores")
    /\ pc' = [pc EXCEPT ![t] = "run"]
    /\ UNCHANGED <<probe, fsVars, mainPc, loadVars, regVars, cat, image, result, response>>

\* operation_by_name_required(..)? fails
BuildArgsErr(t) ==
    /\ pc[t] = "args"
    /\ ~(GraphHas(items[cat[t]], "Placeholder") /\ GraphHas(items[cat[t]], "scores"))
    /\ ReturnErr(t, Err("TensorflowError", NoChallenge))
    /\ UNCHANGED <<probe, fsVars, mainPc, loadVars, items, poisoned, ran,
                   cat, image, response>>

\* model.session.run(&mut output_step)? is Ok
SessionRun(t) ==
    /\ pc[t] = "run"
    /\ Decodable(image[t])
    /\ ran' = ran \cup {cat[t]}
    /\ pc' = [pc EXCEPT ![t] = "fetch"]
    /\ UNCHANGED <<probe, fsVars, mainPc, loadVars, items, holder, poisoned,
                   cat, image, result, response>>

\* model.session.run(&mut output_step)? fails
SessionRunErr(t) ==
    /\ pc[t] = "run"
    /\ ~Decodable(image[t])
    /\ ran' = ran \cup {cat[t]}
    /\ ReturnErr(t, Err("TensorflowError", NoChallenge))
    /\ UNCHANGED <<probe, fsVars, mainPc, loadVars, items, poisoned,
                   cat, image, response>>

\* the guard outlives the call (mem::forget): the lock stays taken
ReturnPrediction_KeepGuard(t) ==
    /\ pc[t] = "fetch"
    /\ ScoresLen(items[cat[t]]) >= 2
    /\ pc' = [pc EXCEPT ![t] = "done"]
    /\ result' = [result EXCEPT ![t] = Ok(Scores(items[cat[t]], image[t]))]
    /\ UNCHANGED <<probe, fsVars, mainPc, loadVars, regVars, cat, image, response>>

\* the run arguments are shared by the calls: the scores read back are those
\* of the image of whichever call is inside predict
ReturnPrediction_SharedArgs(t) ==
    /\ pc[t] = "fetch"
    /\ ScoresLen(items[cat[t]]) >= 2
    /\ holder' = [holder EXCEPT ![cat[t]] = @ \ {t}]
    /\ pc' = [pc EXCEPT ![t] = "done"]
    /\ \E u \in Calls :
          /\ image[u] \in Images
          /\ Decodable(image[u])
          /\ result' = [result EXCEPT ![t] = Ok(Scores(items[cat[t]], image[u]))]
    /\ UNCHANGED <<probe, fsVars, mainPc, loadVars, items, poisoned, ran,
                   cat, image, response>>

\* fetch, predictions[0] and predictions[1]: Ok(Prediction), the guard is dropped
ReturnPrediction(t) ==
    /\ pc[t] = "fetch"
    /\ ScoresLen(items[cat[t]]) >= 2
    /\ holder' = [holder EXCEPT ![cat[t]] = @ \ {t}]
    /\ pc' = [pc EXCEPT ![t] = "done"]
    /\ result' = [result EXCEPT ![t] = Ok(Scores(items[cat[t]], image[t]))]
    /\ UNCHANGED <<probe, fsVars, mainPc, loadVars, items, poisoned, ran,
                   cat, image, response>>

\* one Mutex guards the whole map: the panic poisons every key
IndexPanic_PoisonAll(t) ==
    /\ pc[t] = "fetch"
    /\ ScoresLen(items[cat[t]]) < 2
    /\ holder' = [holder EXCEPT ![cat[t]] = @ \ {t}]
    /\ poisoned' = [c \in DOMAIN items |-> TRUE]
    /\ pc' = [pc EXCEPT ![t] = "done"]
    /\ result' = [result EXCEPT ![t] = Panic("index out of bounds")]
    /\ UNCHANGED <<probe, fsVars, mainPc, loadVars, items, ran, cat, image, response>>

\* predictions[1] is out of bounds: the index panics, the unwinding drops the
\* guard, which poisons the Mutex
IndexPanic(t) ==
    /\ pc[t] = "fetch"
    /\ ScoresLen(items[cat[t]]) < 2
    /\ holder' = [holder EXCEPT ![cat[t]] = @ \ {t}]
    /\ poisoned' = [poisoned EXCEPT ![cat[t]] = TRUE]
    /\ pc' = [pc EXCEPT ![t] = "done"]
    /\ result' = [result EXCEPT ![t] = Panic("index out of bounds")]
    /\ UNCHANGED <<probe, fsVars, mainPc, loadVars, items, ran, cat, image, response>>

PredictOf(t) ==
    \/ LookupFound(t)
    \/ LookupPanic(t)
    \/ LockAcquire(t)
    \/ LockPoisoned(t)
    \/ BuildArgs(t)
    \/ BuildArgsErr(t)
    \/ SessionRun(t)
    \/ SessionRunErr(t)
    \/ ReturnPrediction(t)
    \/ IndexPanic(t)

PredictStep ==
    \/ \E t \in Calls : LookupFound(t)
    \/ \E t \in Calls : LookupPanic(t)
    \/ \E t \in Calls : LockAcquire(t)
    \/ \E t \in Calls : LockPoisoned(t)
    \/ \E t \in Calls : BuildArgs(t)
    \/ \E t \in Calls : BuildArgsErr(t)
    \/ \E t \in Calls : SessionRun(t)
    \/ \E t \in Calls : SessionRunErr(t)
    \/ \E t \in Calls : ReturnPrediction(t)
    \/ \E t \in Calls : IndexPanic(t)

(***************************************************************************)
(* Threads that call predict on a shared registry (tests::prediction,      *)
(* tests::test_images)                                                     *)
(***************************************************************************)
\* registry.predict(challenge, image)
CallPredict(t) ==
    /\ mainPc = "lib"
    /\ loadResult.tag = "ok"
    /\ pc[t] = "idle"
    /\ \E c \in UsedChallenges : cat' = [cat EXCEPT ![t] = c]
    /\ \E img \in Images : image' = [image EXCEPT ![t] = img]
    /\ result' = [result EXCEPT ![t] = Pending]
    /\ pc' = [pc EXCEPT ![t] = "lookup"]
    /\ UNCHANGED <<probe, fsVars, mainPc, loadVars, regVars, response>>

\* the caller has taken the result (or its thread has unwound)
PredictReturned(t) ==
    /\ mainPc = "lib"
    /\ pc[t] = "done"
    /\ pc' = [pc EXCEPT ![t] = "idle"]
    /\ cat' = [cat EXCEPT ![t] = NoChallenge]
    /\ image' = [image EXCEPT ![t] = None]
    /\ result' = [result EXCEPT ![t] = Pending]
    /\ UNCHANGED <<probe, fsVars, mainPc, loadVars, regVars, response>>

\* load_from_models_dir has just been called (tests::load_models, the benchmark)
InitLoad ==
    /\ probe = NoProbe
    /\ dir \in Directories
    /\ dirStatus \in DirStatuses
    /\ mainPc = "lib"
    /\ loadPc = "read_dir"
    /\ loadCalls = 1
    /\ NotLoaded
    /\ NoCalls(0)

NextLoad == LoadStep

SpecLoad == InitLoad /\ [][NextLoad]_vars

\* the directory a registry was loaded from
RegistryDir(m) ==
    {[name |-> OsStr(m[c].src), content |-> m[c].kind] : c \in DOMAIN m}

\* the registries a load can return: a handle per key, loaded from the entry
\* that bears the key's name
Registries ==
    UNION {[S -> Loadable] : S \in SUBSET UsedChallenges}

RegistryOf(kinds) ==
    [c \in DOMAIN kinds |-> Handle([name |-> OsStr(ToName(c)), content |-> kinds[c]])]

\* a registry has been loaded and is shared by MaxCalls threads
InitServe ==
    /\ probe = NoProbe
    /\ \E kinds \in Registries :
          /\ items = RegistryOf(kinds)
          /\ dir = RegistryDir(RegistryOf(kinds))
          /\ loadResult = Ok(RegistryOf(kinds))
    /\ dirStatus = "ok"
    /\ mainPc = "lib"
    /\ loadPc = "done"
    /\ loadCalls = 1
    /\ todo = EmptyMap
    /\ acc = EmptyMap
    /\ wstate = EmptyMap
    /\ full = FALSE
    /\ inspected = dir
    /\ engineCalls = dir
    /\ holder = [c \in DOMAIN items |-> {}]
    /\ poisoned = [c \in DOMAIN items |-> FALSE]
    /\ ran = {}
    /\ NoCalls(MaxCalls)

NextServe ==
    \/ \E t \in Calls : CallPredict(t)
    \/ PredictStep
    \/ \E t \in Calls : PredictReturned(t)

SpecServe == InitServe /\ [][NextServe]_vars

\* a call that is not waiting for its lock keeps running: the thread is
\* scheduled and session.run returns
Running(t) ==
    \/ LookupFound(t)
    \/ LookupPanic(t)
    \/ BuildArgs(t)
    \/ BuildArgsErr(t)
    \/ SessionRun(t)
    \/ SessionRunErr(t)
    \/ ReturnPrediction(t)
    \/ IndexPanic(t)

\* .lock() returns: with a guard, or with the PoisonError
Locking(t) == LockAcquire(t) \/ LockPoisoned(t)

\* Mutex::lock blocks without a timeout; that a waiting call gets the lock
\* when it is free again and again is the fairness of the lock
FairServe ==
    /\ \A t \in 1..MaxCalls : WF_vars(Running(t))
    /\ \A t \in 1..MaxCalls : SF_vars(Locking(t))

SpecServeFair == SpecServe /\ FairServe

(***************************************************************************)
(* api_server: async_main and handle_raw_image_upload                      *)
(***************************************************************************)
\* CaptchaRegistry::load_from_models_dir("../models/") is called
MainLoad ==
    /\ mainPc = "start"
    /\ loadPc = "idle"
    /\ mainPc' = "loading"
    /\ loadPc' = "read_dir"
    /\ loadCalls' = loadCalls + 1
    /\ UNCHANGED <<probe, fsVars, todo, acc, wstate, full, inspected, engineCalls,
                   loadResult, regVars, callVars>>

\* `?` on the load's Err (or its panic): async_main ends, nothing listens
MainLoadFailed ==
    /\ mainPc = "loading"
    /\ loadPc = "done"
    /\ loadResult.tag # "ok"
    /\ mainPc' = "exited"
    /\ UNCHANGED <<probe, fsVars, loadVars, regVars, callVars>>

\* the server listens whatever the load returned
MainListen_Always ==
    /\ mainPc = "loading"
    /\ loadPc = "done"
    /\ mainPc' = "listening"
    /\ UNCHANGED <<probe, fsVars, loadVars, regVars, callVars>>

\* tide::with_state(registry), the route, and listen binds the address
MainListen ==
    /\ mainPc = "loading"
    /\ loadPc = "done"
    /\ loadResult.tag = "ok"
    /\ mainPc' = "listening"
    /\ UNCHANGED <<probe, fsVars, loadVars, regVars, callVars>>

\* app.listen(..).await? fails to bind: async_main ends
MainBindFailed ==
    /\ mainPc = "loading"
    /\ loadPc = "done"
    /\ loadResult.tag = "ok"
    /\ mainPc' = "exited"
    /\ UNCHANGED <<probe, fsVars, loadVars, regVars, callVars>>

MainStep ==
    \/ MainLoad
    \/ MainLoadFailed
    \/ MainListen
    \/ MainBindFailed

\* request bodies: text that is no JSON object, or a JSON object with a
\* challenge name, an image_type and an image (base64 text that decodes to an
\* image text, base64 text that does not decode, or an array of bytes)
Base64Of(img) == [valid |-> TRUE, image |-> img]

\* the image texts that requests carry
RequestImages == {"match", "junk"}

NotBase64 == [valid |-> FALSE, image |-> None]

RequestBodies ==
    {[json |-> "malformed", challenge |-> <<>>, image_type |-> None, data |-> NotBase64]}
        \cup [json : {"ok"},
              challenge : {ToName(c) : c \in UsedChallenges} \cup {Bus},
              image_type : {"base64", "bytes"},
              data : {Base64Of(img) : img \in RequestImages} \cup {NotBase64}]

\* req.body_json::<RecognitionRequest>(): serde reads the challenge by its
\* snake_case name
BodyJson(body) ==
    IF body.json = "ok" /\ FromStr(body.challenge).ok
    THEN Ok(FromStr(body.challenge).value)
    ELSE Err("json", NoChallenge)

\* base64::decode(&data)
Base64Decode(data) == IF data.valid THEN Ok(data.image) ELSE Err("base64", NoChallenge)

Receiving(t) ==
    /\ mainPc = "listening"
    /\ pc[t] = "idle"

\* Err(err) => Error::InvalidRecognitionRequest
RecvInvalid(t) ==
    /\ Receiving(t)
    /\ \E body \in RequestBodies : BodyJson(body).tag # "ok"
    /\ response' = [response EXCEPT ![t] =
                       Response(500, "invalid_recognition_request", None, NoValue)]
    /\ pc' = [pc EXCEPT ![t] = "responded"]
    /\ UNCHANGED <<probe, fsVars, mainPc, loadVars, regVars, cat, image, result>>

\* _ => unimplemented!(): the Bytes form panics
RecvBytes(t) ==
    /\ Receiving(t)
    /\ \E body \in RequestBodies :
          /\ BodyJson(body).tag = "ok"
          /\ body.image_type = "bytes"
    /\ response' = [response EXCEPT ![t] = Dropped]
    /\ pc' = [pc EXCEPT ![t] = "responded"]
    /\ UNCHANGED <<probe, fsVars, mainPc, loadVars, regVars, cat, image, result>>

\* base64::decode is Err => Error::msg("Invalid image Base64")
RecvBadBase64(t) ==
    /\ Receiving(t)
    /\ \E body \in RequestBodies :
          /\ BodyJson(body).tag = "ok"
          /\ body.image_type = "base64"
          /\ Base64Decode(body.data).tag # "ok"
    /\ response' = [response EXCEPT ![t] =
                       Response(500, "generic", "Invalid image Base64", NoValue)]
    /\ pc' = [pc EXCEPT ![t] = "responded"]
    /\ UNCHANGED <<probe, fsVars, mainPc, loadVars, regVars, cat, image, result>>

\* req.state().predict(&challenge, input_str) is called
RecvRecognize(t) ==
    /\ Receiving(t)
    /\ \E body \in RequestBodies :
          /\ BodyJson(body).tag = "ok"
          /\ body.image_type = "base64"
          /\ Base64Decode(body.data).tag = "ok"
          /\ cat' = [cat EXCEPT ![t] = BodyJson(body).value]
          /\ image' = [image EXCEPT ![t] = Base64Decode(body.data).value]
    /\ result' = [result EXCEPT ![t] = Pending]
    /\ pc' = [pc EXCEPT ![t] = "lookup"]
    /\ UNCHANGED <<probe, fsVars, mainPc, loadVars, regVars, response>>

\* Response<T>(Result<T>) is serialized as its Result: the JSON object
\* {"Ok": prediction}
JsonOk(v) == <<"Ok", v>>

\* Ok(prediction) => 200; Err(_) => Error::msg("Prediction failed"); a panic
\* of predict unwinds through the handler
ResponseOf(r) ==
    IF r.tag = "ok" THEN Response(200, None, None, JsonOk(r.value))
    ELSE IF r.tag = "err" THEN Response(500, "generic", "Prediction failed", NoValue)
    ELSE Dropped

Respond(t) ==
    /\ mainPc = "listening"
    /\ pc[t] = "done"
    /\ response' = [response EXCEPT ![t] = ResponseOf(result[t])]
    /\ pc' = [pc EXCEPT ![t] = "responded"]
    /\ UNCHANGED <<probe, fsVars, mainPc, loadVars, regVars, cat, image, result>>

\* the request is over
Close(t) ==
    /\ mainPc = "listening"
    /\ pc[t] = "responded"
    /\ pc' = [pc EXCEPT ![t] = "idle"]
    /\ cat' = [cat EXCEPT ![t] = NoChallenge]
    /\ image' = [image EXCEPT ![t] = None]
    /\ result' = [result EXCEPT ![t] = Pending]
    /\ response' = [response EXCEPT ![t] = NoResponse]
    /\ UNCHANGED <<probe, fsVars, mainPc, loadVars, regVars>>

HandlerStep ==
    \/ \E t \in Calls : RecvInvalid(t)
    \/ \E t \in Calls : RecvBytes(t)
    \/ \E t \in Calls : RecvBadBase64(t)
    \/ \E t \in Calls : RecvRecognize(t)
    \/ \E t \in Calls : Respond(t)
    \/ \E t \in Calls : Close(t)

\* the server process starts
Init ==
    /\ probe = NoProbe
    /\ dir \in Directories
    /\ dirStatus \in DirStatuses
    /\ mainPc = "start"
    /\ loadPc = "idle"
    /\ loadCalls = 0
    /\ NotLoaded
    /\ NoCalls(MaxRequests)

Next ==
    \/ MainStep
    \/ LoadStep
    \/ HandlerStep
    \/ PredictStep

Spec == Init /\ [][Next]_vars

(***************************************************************************)
(* The catalog functions on their own                                      *)
(***************************************************************************)
\* texts that are no canonical name: the Rust identifiers, canonical names
\* with a letter added or removed, upper-cased first letters, the empty text
ProbeTexts ==
    Challenges
        \cup {ToName(c) \o <<"s">> : c \in Challenges}
        \cup {SubSeq(ToName(c), 1, Len(ToName(c)) - 1) : c \in Challenges}
        \cup {<<>>}

ProbeNames ==
    {OsStr(x) : x \in ProbeTexts}
        \cup {OsStr(ToName(c)) : c \in Challenges}
        \cup {RawOsStr(ToName(c) \o <<InvalidByte>>) : c \in Challenges}

\* challenge.to_string()
CatalogToName ==
    /\ probe.stage = "challenge"
    /\ probe' = [probe EXCEPT !.stage = "name", !.name = OsStr(ToName(probe.challenge))]
    /\ UNCHANGED <<fsVars, mainPc, loadVars, regVars, callVars>>

\* CaptchaChallenge::is_valid_challenge_os_str(name)
CatalogIsValid ==
    /\ probe.stage = "name"
    /\ probe' = [probe EXCEPT !.stage = "checked",
                              !.valid = IF is_valid_challenge_os_str(probe.name)
                                        THEN "yes" ELSE "no"]
    /\ UNCHANGED <<fsVars, mainPc, loadVars, regVars, callVars>>

\* CaptchaChallenge::from_str(name.to_str()?)
CatalogFromStr ==
    /\ probe.stage = "checked"
    /\ probe.name.utf8
    /\ probe' = [probe EXCEPT !.stage = "parsed", !.parsed = FromStr(probe.name.text)]
    /\ UNCHANGED <<fsVars, mainPc, loadVars, regVars, callVars>>

InitCatalog ==
    /\ \/ \E c \in Challenges : probe = [NoProbe EXCEPT !.stage = "challenge", !.challenge = c]
       \/ \E n \in ProbeNames : probe = [NoProbe EXCEPT !.stage = "name", !.name = n]
    /\ dir = {}
    /\ dirStatus = "ok"
    /\ mainPc = "lib"
    /\ loadPc = "idle"
    /\ loadCalls = 0
    /\ NotLoaded
    /\ NoCalls(0)

NextCatalog ==
    \/ CatalogToName
    \/ CatalogIsValid
    \/ CatalogFromStr

SpecCatalog == InitCatalog /\ [][NextCatalog]_vars

(***************************************************************************)
(* Properties                                                              *)
(***************************************************************************)
\* the 16 canonical names, in the order of the catalog
CanonicalNames == <<
    <<"a","_","f","i","r","e","_","h","y","d","r","a","n","t">>,
    <<"b","r","i","d","g","e","s">>,
    <<"c","a","r","s">>,
    <<"m","o","t","o","r","c","y","c","l","e","s">>,
    <<"p","a","l","m","_","t","r","e","e","s">>,
    <<"s","t","a","i","r","s">>,
    <<"s","t","o","r","e","_","f","r","o","n","t">>,
    <<"t","r","a","c","t","o","r","s">>,
    <<"b","i","c","y","c","l","e","s">>,
    <<"b","u","s">>,
    <<"c","r","o","s","s","w","a","l","k","s">>,
    <<"m","o","u","n","t","a","i","n","s","_","o","r","_","h","i","l","l","s">>,
    <<"p","a","r","k","i","n","g","_","m","e","t","e","r","s">>,
    <<"s","t","a","t","u","e","s">>,
    <<"t","a","x","i","s">>,
    <<"t","r","a","f","f","i","c","_","l","i","g","h","t","s">>
>>

\* the calls inside predict's locked region on key c
InsideOn(c) == {t \in Calls : InCritical(t) /\ cat[t] = c}

\* C1: at most one call executes the locked region of predict (the graph
\* lookups, session.run, the fetch) on the handle of a key at any time, and a
\* call in that region is the one holder of the key's Mutex.
C1_MutualExclusion ==
    /\ \A c \in DOMAIN items : Cardinality(InsideOn(c)) <= 1
    /\ \A t \in Calls :
          InCritical(t) => cat[t] \in DOMAIN items /\ holder[cat[t]] = {t}

\* one call runs the session of a key while another call on the same key waits
C1_Witness ==
    \E t, u \in Calls :
        /\ t # u
        /\ cat[t] = cat[u]
        /\ pc[t] = "run"
        /\ pc[u] = "lock"

\* C2: a call inside predict can always take its next step, except when it
\* waits for the Mutex of its own key and another call on that same key holds
\* it: no call ever waits for the lock of another key.
C2_NoCrossBlocking ==
    \A t \in Calls :
        pc[t] \in {"lookup", "lock", "args", "run", "fetch"} =>
            \/ ENABLED PredictOf(t)
            \/ /\ pc[t] = "lock"
               /\ \E u \in Calls \ {t} : u \in holder[cat[t]] /\ cat[u] = cat[t]

\* a call on one key has returned a prediction while a call on another key
\* still holds that key's lock
C2_Witness ==
    \E t, u \in Calls :
        /\ cat[t] # cat[u]
        /\ pc[t] = "done"
        /\ result[t].tag = "ok"
        /\ InCritical(u)
        /\ holder[cat[u]] = {u}

\* C3 as stated: after a call on a loaded key has ended in failure (an error
\* or a panic), the key's lock is free and can still be acquired for inference.
C3_AvailableAfterFailure ==
    \A t \in Calls :
        (pc[t] = "done" /\ result[t].tag \in {"err", "panic"} /\ cat[t] \in DOMAIN items)
            => holder[cat[t]] = {} /\ ~poisoned[cat[t]]

\* C3 amended: every exit of predict on a loaded key leaves the caller without
\* the guard; an exit with a prediction or an error leaves the poison flag as
\* it was, so the key stays available; an exit by panic sets the poison flag.
C3_ReleasedOnEveryExit ==
    [][\A t \in Calls :
          (pc[t] # "done" /\ pc'[t] = "done" /\ cat[t] \in DOMAIN items) =>
              /\ t \notin holder'[cat[t]]
              /\ result'[t].tag # "panic" => poisoned'[cat[t]] = poisoned[cat[t]]
              /\ result'[t].tag = "panic" => poisoned'[cat[t]]]_vars

\* a call on a key has ended in an inference error and another call on the
\* same key is inside the locked region
C3_Witness ==
    \E t, u \in Calls :
        /\ t # u
        /\ cat[t] = cat[u]
        /\ pc[t] = "done"
        /\ result[t] = Err("TensorflowError", NoChallenge)
        /\ pc[u] = "run"

\* C4 as stated: predict on a challenge that is no key of the map returns the
\* error CategoryNotLoaded and does not panic.
C4_ReturnsCategoryNotLoaded ==
    \A t \in Calls :
        (pc[t] = "done" /\ cat[t] \notin DOMAIN items)
            => result[t] = Err("CategoryNotLoaded", NoChallenge)

\* the challenge an entry is named for, if any
NamedFor(e) ==
    {CaptchaChallenge[i] : i \in {k \in 1..Len(CanonicalNames) : e.name = OsStr(CanonicalNames[k])}}

\* entries named for a catalog member that lack the artifact or are rejected
BadEntries == {e \in dir : NamedFor(e) # {} /\ e.content \notin Loadable}

\* C5: when an entry named for a catalog member lacks saved_model.pb or is
\* rejected by the engine, the load returns an error and no registry, however
\* the entries are cut into pieces and scheduled; when a single entry is bad
\* and it lacks its artifact, the error is ModelLoad of that entry's challenge.
C5_AllOrNothing ==
    /\ loadResult.tag # "ok" => items = EmptyMap
    /\ (loadPc = "done" /\ BadEntries # {}) =>
          loadResult.tag = "err" /\ items = EmptyMap
    /\ (loadPc = "done" /\ dirStatus = "ok") =>
          \A e \in dir : \A c \in NamedFor(e) :
              (BadEntries = {e} /\ e.content = "nopb") =>
                  loadResult = Err("ModelLoad", c)

\* the load has failed for a missing artifact although another entry loaded
C5_Witness ==
    /\ loadPc = "done"
    /\ loadResult.error = "ModelLoad"
    /\ \E e \in engineCalls : e.content \in Loadable

\* C6: when the directory is readable and holds nothing but loadable entries
\* named for catalog members, the load succeeds and the map has exactly the
\* challenges of the entries as keys, each with the handle loaded from its own
\* entry in a free, unpoisoned Mutex.
C6_LoadCompleteness ==
    (loadPc = "done" /\ dirStatus = "ok"
        /\ \A e \in dir : NamedFor(e) # {} /\ e.content \in Loadable) =>
            /\ loadResult.tag = "ok"
            /\ loadResult.value = items
            /\ DOMAIN items = UNION {NamedFor(e) : e \in dir}
            /\ \A e \in dir : \A c \in NamedFor(e) : items[c] = Handle(e)
            /\ holder = [c \in DOMAIN items |-> {}]
            /\ poisoned = [c \in DOMAIN items |-> FALSE]

\* both challenges have been loaded
C6_Witness ==
    /\ loadPc = "done"
    /\ loadResult.tag = "ok"
    /\ DOMAIN items = UsedChallenges
    /\ Cardinality(dir) = Cardinality(UsedChallenges)

\* C7: an entry not named for a catalog member is dropped by the filter: it
\* is never looked into, never passed to the engine, never the source of a
\* handle of the map, and it never makes the load fail.
C7_StrayEntriesSkipped ==
    /\ \A e \in inspected \cup engineCalls : NamedFor(e) # {}
    /\ \A w \in Workers : \A e \in todo[w] :
          (NamedFor(e) = {} /\ Consuming(w, e)) => ENABLED SkipEntry(w, e)
    /\ \A w \in Workers : acc[w].tag = "ok" =>
          \A c \in DOMAIN acc[w].value :
              \E e \in dir : c \in NamedFor(e) /\ acc[w].value[c] = Handle(e)
    /\ \A c \in DOMAIN items :
          \E e \in dir : c \in NamedFor(e) /\ items[c] = Handle(e)
    /\ (loadPc = "done" /\ dirStatus = "ok" /\ BadEntries = {}) =>
          /\ loadResult.tag = "ok"
          /\ DOMAIN items = UNION {NamedFor(e) : e \in dir}

\* the load has succeeded on a directory that holds a stray entry without an
\* artifact and a stray entry the engine would reject
C7_Witness ==
    /\ loadPc = "done"
    /\ loadResult.tag = "ok"
    /\ items # EmptyMap
    /\ \E e \in dir : NamedFor(e) = {} /\ e.content \notin Loadable /\ ~e.name.utf8

\* C8: a poison flag is set only by a panic of a call on that key inside the
\* locked region and is never cleared; a call that finds the flag set leaves
\* lock() with the error MutexError, so no call is inside the locked region of
\* a poisoned key; the flags of the other keys are left as they were.
C8_PoisonDisablesCategory ==
    [][/\ \A c \in DOMAIN items :
             /\ poisoned[c] => poisoned'[c]
             /\ (~poisoned[c] /\ poisoned'[c]) =>
                   \E t \in Calls :
                       cat[t] = c /\ pc[t] = "fetch" /\ result'[t].tag = "panic"
       /\ \A t \in Calls :
             (pc[t] = "lock" /\ pc'[t] # "lock" /\ poisoned[cat[t]]) =>
                 /\ pc'[t] = "done"
                 /\ result'[t] = Err("MutexError", NoChallenge)
                 /\ ran' = ran
       /\ \A t \in Calls : InCritical(t)' => ~poisoned'[cat'[t]]]_vars

\* one key is poisoned and a call on it has returned MutexError, while a call
\* on the other key has returned a prediction
C8_Witness ==
    \E t, u \in Calls :
        /\ cat[t] # cat[u]
        /\ pc[t] = "done"
        /\ result[t] = Err("MutexError", NoChallenge)
        /\ poisoned[cat[t]]
        /\ pc[u] = "done"
        /\ result[u].tag = "ok"

\* C9: the load is called at most once; the server listens or handles a request
\* only after that one load has returned Ok, with the registry it returned,
\* which holds every entry named for a catalog member; after a failed load no
\* request is ever handled and the only step of async_main is to end.
C9_NoPartialServing ==
    /\ loadCalls <= 1
    /\ (mainPc = "listening" \/ \E t \in Calls : pc[t] # "idle") =>
          /\ loadCalls = 1
          /\ loadPc = "done"
          /\ loadResult.tag = "ok"
          /\ loadResult.value = items
          /\ DOMAIN items = UNION {NamedFor(e) : e \in dir}
    /\ (loadPc = "done" /\ loadResult.tag # "ok") =>
          /\ mainPc \in {"loading", "exited"}
          /\ \A t \in Calls : pc[t] = "idle"
          /\ mainPc = "loading" => ENABLED MainLoadFailed /\ ~ENABLED MainListen

\* a request has been answered with a prediction
C9_Witness ==
    \E t \in Calls :
        /\ pc[t] = "responded"
        /\ response[t].status = 200
        /\ mainPc = "listening"

\* C10: the name of the i-th catalog member is the i-th canonical snake_case
\* name; parsing the name of a member yields that member; parsing succeeds on
\* the canonical names only, and a failed parse yields no challenge.
C10_RoundTrip ==
    /\ \A i \in 1..NumChallenges :
          (probe.challenge = CaptchaChallenge[i] /\ probe.stage # "challenge") =>
              probe.name = OsStr(CanonicalNames[i])
    /\ (probe.stage = "parsed" /\ probe.challenge # NoChallenge) =>
          probe.parsed = [ok |-> TRUE, value |-> probe.challenge]
    /\ probe.stage = "parsed" =>
          /\ probe.parsed.ok <=>
                \E i \in 1..Len(CanonicalNames) : probe.name.text = CanonicalNames[i]
          /\ \A i \in 1..Len(CanonicalNames) :
                probe.name.text = CanonicalNames[i] =>
                    probe.parsed.value = CaptchaChallenge[i]
          /\ ~probe.parsed.ok => probe.parsed.value = NoChallenge

\* the name of AFireHydrant has been parsed back
C10_Witness ==
    /\ probe.stage = "parsed"
    /\ probe.challenge = CaptchaChallenge[1]
    /\ probe.parsed = [ok |-> TRUE, value |-> CaptchaChallenge[1]]

\* C11 as stated: a request that is malformed (its body is no valid
\* RecognitionRequest, or its base64 text does not decode) is answered with 500
\* and the tag invalid_recognition_request; a request whose predict call fails
\* (an error or a panic) is answered with 500 and the tag generic; a request
\* whose predict call returns a prediction is answered with 200 and that pair.
C11_ErrorTags ==
    [][\A t \in Calls :
          /\ (RecvInvalid(t) \/ RecvBadBase64(t)) =>
                /\ response'[t].status = 500
                /\ response'[t].err = "invalid_recognition_request"
          /\ (Respond(t) /\ result[t].tag # "ok") =>
                /\ response'[t].status = 500
                /\ response'[t].err = "generic"
          /\ (Respond(t) /\ result[t].tag = "ok") =>
                /\ response'[t].status = 200
                /\ response'[t].body = JsonOk(result[t].value)]_vars

C13_Determinism ==
    \A t, u \in Calls :
        (/\ pc[t] = "done"
         /\ pc[u] = "done"
         /\ result[t].tag = "ok"
         /\ result[u].tag = "ok"
         /\ cat[t] = cat[u]
         /\ image[t] = image[u]) => result[t].value = result[u].value

\* two calls with the same challenge and image have returned predictions
\* after the session of the other challenge has run as well
C13_Witness ==
    \E t, u \in Calls :
        /\ t # u
        /\ pc[t] = "done"
        /\ pc[u] = "done"
        /\ result[t].tag = "ok"
        /\ result[u].tag = "ok"
        /\ cat[t] = cat[u]
        /\ image[t] = image[u]
        /\ ran = UsedChallenges

\* C14: when the directory or one of its entries cannot be read, the load
\* returns the IO error straight from read_dir: the entries are never split,
\* filtered, looked into or passed to the engine, and no registry is returned.
C14_IoErrorFirst ==
    dirStatus # "ok" =>
        /\ loadPc \in {"read_dir", "done"}
        /\ todo = EmptyMap
        /\ acc = EmptyMap
        /\ inspected = {}
        /\ engineCalls = {}
        /\ items = EmptyMap
        /\ loadPc = "done" => loadResult = Err("IOError", NoChallenge)

\* the load has returned the IO error for a directory that holds a loadable
\* entry, one of whose entries cannot be read
C14_Witness ==
    /\ loadPc = "done"
    /\ dirStatus = "entry_err"
    /\ loadResult = Err("IOError", NoChallenge)
    /\ \E e \in dir : NamedFor(e) # {} /\ e.content \in Loadable

\* pieces whose partial map has not yet been handed to a merge
LivePieces == {w \in Workers : wstate[w] \in {"folding", "folded"} /\ acc[w].tag = "ok"}

C16_ValidIffParses ==
    /\ probe.stage = "parsed" => (probe.valid = "yes" <=> probe.parsed.ok)
    /\ (probe.stage \in {"checked", "parsed"} /\ probe.valid = "yes") =>
          /\ probe.name.utf8
          /\ EntryChallenge([name |-> probe.name, content |-> "good"]).tag = "ok"
    /\ (probe.stage = "checked" /\ ~probe.name.utf8) => probe.valid = "no"

\* a name that passed the filter has been parsed
C16_Witness ==
    /\ probe.stage = "parsed"
    /\ probe.valid = "yes"
    /\ probe.parsed.ok
    /\ probe.challenge = NoChallenge

\* a call is inside predict and takes a step of it
PredictMoves(t) ==
    /\ pc[t] \in {"lookup", "lock", "args", "run", "fetch"}
    /\ pc'[t] # pc[t]

\* C17: no step after construction changes the map's keys or the handle of a
\* key, whether the call succeeds, fails or panics; a step of a predict call
\* on one challenge leaves the lock, the poison flag and the session of every
\* other key as they were.
C17_RegistryFrame ==
    [][/\ items' = items
       /\ DOMAIN holder' = DOMAIN items
       /\ DOMAIN poisoned' = DOMAIN items
       /\ \A t \in Calls :
             PredictMoves(t) =>
                 \A c \in DOMAIN items \ {cat[t]} :
                     /\ holder'[c] = holder[c]
                     /\ poisoned'[c] = poisoned[c]
                     /\ (c \in ran') <=> (c \in ran)]_vars

\* a call has panicked on one key and poisoned it while another call is
\* inside the engine on a second key, which is not poisoned
C17_Witness ==
    \E t, u \in Calls :
        /\ pc[t] = "done"
        /\ result[t].tag = "panic"
        /\ cat[t] \in DOMAIN items
        /\ poisoned[cat[t]]
        /\ cat[u] \in DOMAIN items
        /\ cat[u] # cat[t]
        /\ holder[cat[u]] = {u}
        /\ ~poisoned[cat[u]]

\* C18: a call holds at most the lock of its own challenge and only between
\* acquiring it and returning, so it holds none while it waits; whenever a
\* call waits for a lock, it or the holder of that lock can take a step, so
\* the calls are never all blocked.
C18_NoDeadlock ==
    /\ \A t \in Calls : \A c \in DOMAIN items :
          t \in holder[c] => (c = cat[t] /\ InCritical(t))
    /\ \A t \in Calls :
          pc[t] = "lock" =>
              \/ ENABLED PredictOf(t)
              \/ \E u \in holder[cat[t]] : u # t /\ InCritical(u) /\ ENABLED PredictOf(u)

\* a call waits for the lock another call holds while building its arguments
C18_Witness ==
    \E t, u \in Calls :
        /\ t # u
        /\ pc[t] = "lock"
        /\ pc[u] = "args"
        /\ cat[t] = cat[u]
        /\ holder[cat[t]] = {u}
        /\ ~ENABLED PredictOf(t)

\* C20: a call for a challenge the map lacks ends at the lookup: it never
\* holds a lock, and its failing step leaves every lock, poison flag and
\* session of the map as it was, so the loaded challenges stay usable.
C20_LookupBeforeLock ==
    [][\A t \in Calls :
          /\ (cat'[t] \in UsedChallenges /\ cat'[t] \notin DOMAIN items') =>
                /\ pc'[t] \in {"lookup", "done"}
                /\ \A c \in DOMAIN items' : t \notin holder'[c]
          /\ (pc[t] = "lookup" /\ pc'[t] # pc[t] /\ cat[t] \notin DOMAIN items) =>
                /\ pc'[t] = "done"
                /\ result'[t].tag # "ok"
                /\ holder' = holder
                /\ poisoned' = poisoned
                /\ ran' = ran
                /\ items' = items
          /\ pc[t] = "lookup" => \A c \in DOMAIN items : t \notin holder[c]]_vars

\* a call for an absent challenge has failed at the lookup and another call
\* has returned a prediction for a loaded challenge, whose lock is free
C20_Witness ==
    \E t, u \in Calls :
        /\ pc[t] = "done"
        /\ cat[t] \notin DOMAIN items
        /\ result[t].tag = "panic"
        /\ pc[u] = "done"
        /\ cat[u] \in DOMAIN items
        /\ result[u].tag = "ok"
        /\ holder[cat[u]] = {}
        /\ ~poisoned[cat[u]]

\* C19: when the engine runs terminate and the lock is fair, every call
\* that waits for the lock of a loaded challenge leaves predict, and when
\* the model of the challenge lets no call panic under the lock it returns a
\* prediction or an error; a waiting call leaves the wait only by getting the lock, or
\* the PoisonError of a lock some call panicked under: nothing cancels it or
\* times it out.
C19_EventualCompletion ==
    /\ \A t \in 1..MaxCalls :
          (pc[t] = "lock") ~>
              IF pc[t] # "done" \/ cat[t] \notin DOMAIN items THEN FALSE
              ELSE ScoresLen(items[cat[t]]) >= 2 => result[t].tag \in {"ok", "err"}
    /\ [][\A t \in Calls :
             (pc[t] = "lock" /\ pc'[t] # "lock") =>
                 \/ /\ pc'[t] = "args"
                    /\ ~poisoned[cat[t]]
                    /\ holder'[cat[t]] = {t}
                 \/ /\ pc'[t] = "done"
                    /\ poisoned[cat[t]]
                    /\ result'[t] = Err("MutexError", NoChallenge)]_vars

\* a call waits for a lock whose holder has run the session and is about to
\* read the scores
C19_Witness ==
    \E t, u \in Calls :
        /\ t # u
        /\ pc[t] = "lock"
        /\ pc[u] = "fetch"
        /\ cat[t] = cat[u]
        /\ u \in holder[cat[t]]
        /\ ~poisoned[cat[t]]

====
